---- MODULE Spec2Model ----
(***************************************************************************)
(* Model of the live submission queue of eQueue_backend:                   *)
(*   crud/queue_members.py   join / toggle / leave (and leave-and-mark)    *)
(*   crud/submissions.py     create_submission                             *)
(*   crud/queues.py          queue CRUD, check_foreign_key_queue_id,       *)
(*                           snapshot                                      *)
(*   api/queue_websocket.py  ConnectionManager (registry and broadcast)    *)
(*                           and the websocket endpoint                    *)
(*   crud/workspace_members.py  creation, status and removal of the        *)
(*                           members of the workspace                      *)
(*                                                                         *)
(* Every request handler is a coroutine running on its own database        *)
(* session.  A handler is modelled as a process that advances one awaited  *)
(* database statement (or one websocket send) per step; session.commit()   *)
(* makes the statements of the step durable and visible to the other       *)
(* sessions.  The sequential specification SpecSeq lets a handler start    *)
(* only when no other handler is running; Spec lets handlers of different  *)
(* users interleave at every await, SpecLive does so in front of           *)
(* websockets, SpecSame lets two joins of one user overlap.  SpecWs is     *)
(* the websocket endpoint next to the deletion and creation of the queue,  *)
(* SpecAdmin the queues router next to join, toggle and leave, SpecCast    *)
(* the broadcast while websockets register and unregister.  SpecMembers,   *)
(* SpecPending and SpecRemoval are about the members of the workspace:     *)
(* their removal, their status, and a removal that overlaps a join.        *)
(***************************************************************************)
EXTENDS Integers, Sequences, FiniteSets, TLC

\* ------------------------------------------------------------------ domains

\* ids of the users known to the system; user 4 is not a workspace member
Users == {1, 2, 3, 4}
\* users having a WorkspaceMember row in the workspace of the subject
InitialWorkspaceMembers == {1, 2, 3}
\* the administrator of the workspace among its members
WorkspaceAdmin == 1
\* the subject of the workspace (one queue per subject)
ExistingSubject == 1
\* subject ids a request may carry; 2 refers to no subject
SubjectIdInputs == {1, 2}
\* the queue that exists at the start
ExistingQueue == 1
\* queue ids a request may carry; 2 refers to no queue at the start
QueueIdInputs == {1, 2}
\* the access token no user holds
InvalidToken == 0
\* ids of the tasks of the queue's subject
Tasks == {1, 2, 3}
\* concurrently running request handlers
Procs == {1, 2}
\* websockets that may watch the queue
Conns == {"ws1", "ws2"}
\* positions grow without limit once a gap exists: joins that would take a
\* position above this one are not explored
MaxPosition == 3
\* handlers that overlap in time in one batch of Spec
MaxBatch == 2
\* queues are created until the sequence of their ids has reached this value
MaxQueueId == 2

\* --------------------------------------------------------------- variables

VARIABLES
    workspace_members,    \* committed rows of table workspace_members
    queues,               \* committed rows of table queues
    queues_id_seq,        \* last value of the sequence behind queues.id
    queue_members,        \* committed rows of table queue_members
    submissions,          \* committed rows of table submissions
    active_connections,   \* ConnectionManager.active_connections (dict)
    dropped,              \* registered websockets whose client has gone
    endpoint,             \* per websocket: position in websocket_endpoint
    proc,                 \* per handler: position in the code and locals
    quiescent,            \* history: tables when the running batch started
    since,                \* history: handlers started since `quiescent'
    delivered             \* history: texts the broadcasts of the running
                          \* handlers have sent, oldest first

vars == <<workspace_members, queues, queues_id_seq, queue_members,
          submissions, active_connections, dropped, endpoint, proc,
          quiescent, since, delivered>>

\* the tables the queue operations only read
catalog == <<workspace_members, queues, queues_id_seq>>
db == <<catalog, queue_members, submissions>>
registry == <<active_connections, dropped, endpoint>>
history == <<quiescent, since, delivered>>

\* ----------------------------------------------------------------- helpers

\* the value of an Optional[QueueMember] that is None
NoRow == [user_id |-> 0, queue_id |-> 0, position |-> -1, status |-> "none"]

\* a row of table workspace_members (of the one workspace)
WorkspaceMember(u, admin, st) ==
    [user_id |-> u, is_admin |-> admin, status |-> st]

\* the value of an Optional[WorkspaceMember] that is None
NoMember == [user_id |-> 0, is_admin |-> FALSE, status |-> "none"]

\* a row of table queues
Queue(id, sid, flag) ==
    [id |-> id, subject_id |-> sid, members_can_freeze |-> flag]

\* the value of an Optional[Queue] that is None
NoQueue == [id |-> 0, subject_id |-> 0, members_can_freeze |-> FALSE]

QueueMember(u, q, pos, st) ==
    [user_id |-> u, queue_id |-> q, position |-> pos, status |-> st]

Submission(u, t) == [user_id |-> u, task_id |-> t]

MaxOf(S) == CHOOSE x \in S : \A y \in S : y <= x
MinOf(S) == CHOOSE x \in S : \A y \in S : x <= y

\* the locals of a handler that is not running
IdleProc ==
    [pc |-> "idle", kind |-> "none", user_id |-> 0, queue_id |-> 0,
     subject_id |-> 0, members_can_freeze |-> FALSE,
     workspace_member_id |-> 0, workspace_member |-> NoMember,
     leave_and_mark |-> FALSE, queue_member |-> NoRow, position |-> -1,
     members |-> {}, tasks |-> <<>>, snapshot |-> <<>>, idx |-> 0,
     sent |-> <<>>, audience |-> {}, result |-> "none"]

\* HTTP status the registered exception handlers answer with
StatusCode(result) ==
    CASE result = "ok" -> 200
      [] result = "UniqueConstraintViolationException" -> 409
      [] result = "NoEntityFoundException" -> 404
      [] result = "ForeignKeyViolationException" -> 409
      [] result = "UserIsNotWorkspaceAdminException" -> 403
      [] result = "AdminSuicideException" -> 409
      [] OTHER -> 500

\* session.get(Queue, queue_id)
get_queue_by_id(qid) ==
    IF \E r \in queues : r.id = qid
    THEN CHOOSE r \in queues : r.id = qid
    ELSE NoQueue

\* select(Queue).where(Queue.subject_id == subject_id) ... one_or_none()
get_queue_by_subject_id(sid) ==
    IF \E r \in queues : r.subject_id = sid
    THEN CHOOSE r \in queues : r.subject_id = sid
    ELSE NoQueue

\* get_workspace_member_by_user_id_and_workspace_id: is there such a row
get_workspace_member_by_user_id_and_workspace_id(u) ==
    \E w \in workspace_members : w.user_id = u

\* session.get(WorkspaceMember, workspace_member_id); the row of a user
\* stands for its id (one workspace, at most one row per user)
get_workspace_member_by_id(id) ==
    IF \E w \in workspace_members : w.user_id = id
    THEN CHOOSE w \in workspace_members : w.user_id = id
    ELSE NoMember

\* select(QueueMember).where(QueueMember.queue_id == queue_id)
get_queue_members_by_queue_id(qid) ==
    {m \in queue_members : m.queue_id = qid}

\* select(QueueMember).where(user_id == u, queue_id == q) ... one_or_none()
get_queue_member_by_user_id_and_queue_id(u, q) ==
    IF \E m \in queue_members : m.user_id = u /\ m.queue_id = q
    THEN CHOOSE m \in queue_members : m.user_id = u /\ m.queue_id = q
    ELSE NoRow

\* mutant: the last position returned without the increment
get_last_position_in_queue_by_queue_id(qid) ==
    LET positions == {m.position : m \in get_queue_members_by_queue_id(qid)}
    IN  IF positions = {} THEN 0 ELSE MaxOf(positions)

\* select(QueueMember.position) ... order_by(position.desc()) ... first()
get_next_position_in_queue_by_queue_id(qid) ==
    LET positions == {m.position : m \in get_queue_members_by_queue_id(qid)}
    IN  IF positions = {} THEN 0 ELSE MaxOf(positions) + 1

\* select(Submission).where(user_id == u, task_id == t) ... one_or_none()
get_submission_by_user_id_and_task_id(u, t) ==
    Submission(u, t) \in submissions

EmptyDict == [q \in {} |-> <<>>]

\* the locals of a websocket no endpoint coroutine is serving
ClosedEndpoint ==
    [pc |-> "closed", token |-> InvalidToken, queue_id |-> 0,
     result |-> "none"]

\* --------------------------------------------------------------------- Init

Init ==
    /\ workspace_members =
           {WorkspaceMember(u, u = WorkspaceAdmin, "approved") :
                u \in InitialWorkspaceMembers}
    /\ queues = {Queue(ExistingQueue, ExistingSubject, TRUE)}
    /\ queues_id_seq = ExistingQueue
    /\ queue_members = {}
    /\ submissions = {}
    /\ active_connections = EmptyDict
    /\ dropped = {}
    /\ endpoint = [c \in Conns |-> ClosedEndpoint]
    /\ proc = [p \in Procs |-> IdleProc]
    /\ quiescent = [queue_members |-> {}, submissions |-> {},
                    queues |-> {Queue(ExistingQueue, ExistingSubject, TRUE)}]
    /\ since = 0
    /\ delivered = <<>>

\* ------------------------------------------------------- handler plumbing

AllIdle == \A p \in Procs : proc[p].pc = "idle"

\* no handler is between its first and its last statement
Quiescent == \A p \in Procs : proc[p].pc \in {"idle", "done"}

\* the handler ends: normally ("ok") or by the exception named
Finish(p, result) ==
    proc' = [proc EXCEPT ![p].pc = "done", ![p].result = result]

Goto(p, label) == proc' = [proc EXCEPT ![p].pc = label]

\* the history variables when handler p starts
Started(p) ==
    IF \A o \in Procs \ {p} : proc[o].pc \in {"idle", "done"}
    THEN /\ quiescent' = [queue_members |-> queue_members,
                          submissions |-> submissions,
                          queues |-> queues]
         /\ since' = 1
         /\ delivered' = <<>>
    ELSE /\ UNCHANGED <<quiescent, delivered>>
         /\ since' = since + 1

\* a request arrives and its handler starts on a fresh session
Begin(p, kind, u, q, mark) ==
    /\ proc[p].pc = "idle"
    /\ proc' = [proc EXCEPT ![p] =
                  [IdleProc EXCEPT !.pc = "check_fk", !.kind = kind,
                                   !.user_id = u, !.queue_id = q,
                                   !.leave_and_mark = mark]]
    /\ Started(p)
    /\ UNCHANGED <<db, registry>>

\* a request of the queues router arrives
BeginQueue(p, kind, u, sid, flag) ==
    /\ proc[p].pc = "idle"
    /\ proc' = [proc EXCEPT ![p] =
                  [IdleProc EXCEPT !.pc = kind, !.kind = kind,
                                   !.user_id = u, !.subject_id = sid,
                                   !.members_can_freeze = flag]]
    /\ Started(p)
    /\ UNCHANGED <<db, registry>>

\* POST /queues
create_queue_request(p, u, sid, flag) ==
    /\ queues_id_seq < MaxQueueId
    /\ BeginQueue(p, "create_queue", u, sid, flag)

\* PATCH /queues/{sid}
update_queue_by_subject_id(p, u, sid, flag) ==
    BeginQueue(p, "update_queue", u, sid, flag)

\* DELETE /queues/{sid}
delete_queue_by_subject_id(p, u, sid) ==
    BeginQueue(p, "delete_queue", u, sid, FALSE)

\* POST /queue_members/{qid}
create_queue_member_request(p, u, q) ==
    /\ get_next_position_in_queue_by_queue_id(q) <= MaxPosition
    /\ Begin(p, "join", u, q, FALSE)

\* PATCH /queue_members/{qid}
partial_update_queue_member(p, u, q) == Begin(p, "toggle", u, q, FALSE)

\* DELETE /queue_members/{qid}
delete_queue_member(p, u, q) == Begin(p, "leave", u, q, FALSE)

\* DELETE /queue_members/leave_and_mark/{qid}
delete_queue_member_and_submit_nearest_task(p, u, q) ==
    Begin(p, "leave", u, q, TRUE)

\* the response is sent and the handler's session is closed
Return(p) ==
    /\ proc[p].pc = "done"
    /\ proc' = [proc EXCEPT ![p] = IdleProc]
    /\ delivered' = IF \A o \in Procs \ {p} : proc[o].pc = "idle"
                    THEN <<>> ELSE delivered
    /\ UNCHANGED <<db, registry, quiescent, since>>

\* ------------------------------------------- checks shared by the handlers

\* mutant: the existence of the queue is not checked
check_foreign_key_queue_id_skipped(p) ==
    /\ proc[p].pc = "check_fk"
    /\ Goto(p, "check_member")
    /\ UNCHANGED <<db, registry, history>>

\* if not await get_queue_by_id(session, queue_id): raise ForeignKey...
check_foreign_key_queue_id(p) ==
    /\ proc[p].pc = "check_fk"
    /\ IF get_queue_by_id(proc[p].queue_id) = NoQueue
       THEN Finish(p, "ForeignKeyViolationException")
       ELSE Goto(p, "check_member")
    /\ UNCHANGED <<db, registry, history>>

\* mutant: the membership check passes for everybody
check_if_user_is_anybody(u) == TRUE

\* get_subject_by_id(check_membership=True) -> check_if_user_is_workspace_member
check_if_user_is_workspace_member(u) ==
    get_workspace_member_by_user_id_and_workspace_id(u)

\* mutant: the administrator check accepts every member
check_if_user_is_workspace_admin_or_member(u) ==
    get_workspace_member_by_user_id_and_workspace_id(u)

\* not (member := get_workspace_member...) or not member.is_admin
check_if_user_is_workspace_admin(u) ==
    \E w \in workspace_members : w.user_id = u /\ w.is_admin

check_if_user_is_permitted_to_get_tasks(p) ==
    /\ proc[p].pc = "check_member"
    /\ IF ~check_if_user_is_workspace_member(proc[p].user_id)
       THEN Finish(p, "UserIsNotWorkspaceAdminException")
       ELSE Goto(p, IF proc[p].kind = "join" THEN "j_unique"
                                             ELSE "get_member")
    /\ UNCHANGED <<db, registry, history>>

\* last statement of complex_queue_member_check: the caller's own row
complex_queue_member_check(p) ==
    /\ proc[p].pc = "get_member"
    /\ LET qm == get_queue_member_by_user_id_and_queue_id(
                     proc[p].user_id, proc[p].queue_id)
       IN  IF qm = NoRow
           THEN Finish(p, "NoEntityFoundException")
           ELSE proc' = [proc EXCEPT
                   ![p].queue_member = qm,
                   ![p].pc = IF proc[p].kind = "toggle" THEN "t_commit"
                                                        ELSE "l_delete"]
    /\ UNCHANGED <<db, registry, history>>

\* ------------------------------------------------------------------- join

\* mutant: the uniqueness pre-check never raises
check_complex_unique_skipped(p) ==
    /\ proc[p].pc = "j_unique"
    /\ Goto(p, "j_position")
    /\ UNCHANGED <<db, registry, history>>

check_complex_unique_user_id_queue_id(p) ==
    /\ proc[p].pc = "j_unique"
    /\ IF get_queue_member_by_user_id_and_queue_id(
              proc[p].user_id, proc[p].queue_id) # NoRow
       THEN Finish(p, "UniqueConstraintViolationException")
       ELSE Goto(p, "j_position")
    /\ UNCHANGED <<db, registry, history>>

\* position=await _get_next_position_in_queue_by_queue_id(...)
create_queue_member_position(p) ==
    /\ proc[p].pc = "j_position"
    /\ get_next_position_in_queue_by_queue_id(proc[p].queue_id) <= MaxPosition
    /\ proc' = [proc EXCEPT
          ![p].position =
              get_next_position_in_queue_by_queue_id(proc[p].queue_id),
          ![p].pc = "j_commit"]
    /\ UNCHANGED <<db, registry, history>>

\* mutant: the table without its UniqueConstraint(user_id, queue_id)
create_queue_member_commit_unconstrained(p) ==
    /\ proc[p].pc = "j_commit"
    /\ LET qm == QueueMember(proc[p].user_id, proc[p].queue_id,
                             proc[p].position, "active")
       IN  /\ queue_members' = queue_members \cup {qm}
           /\ proc' = [proc EXCEPT ![p].queue_member = qm,
                                   ![p].pc = "refresh"]
    /\ UNCHANGED <<catalog, submissions, registry,
                   history>>

\* session.add(queue_member); await session.commit()
\* the table's UniqueConstraint(user_id, queue_id) rejects a second row
create_queue_member_commit(p) ==
    /\ proc[p].pc = "j_commit"
    /\ IF get_queue_member_by_user_id_and_queue_id(
              proc[p].user_id, proc[p].queue_id) # NoRow
       THEN /\ Finish(p, "IntegrityError")
            /\ UNCHANGED queue_members
       ELSE LET qm == QueueMember(proc[p].user_id, proc[p].queue_id,
                                  proc[p].position, "active")
            IN  /\ queue_members' = queue_members \cup {qm}
                /\ proc' = [proc EXCEPT ![p].queue_member = qm,
                                        ![p].pc = "refresh"]
    /\ UNCHANGED <<catalog, submissions, registry,
                   history>>

\* await session.refresh(queue_member)   (join and toggle)
refresh(p) ==
    /\ proc[p].pc = "refresh"
    /\ LET qm == get_queue_member_by_user_id_and_queue_id(
                     proc[p].user_id, proc[p].queue_id)
       IN  IF qm = NoRow
           THEN Finish(p, "InvalidRequestError")
           ELSE proc' = [proc EXCEPT ![p].queue_member = qm,
                                     ![p].pc = "notify"]
    /\ UNCHANGED <<db, registry, history>>

\* ----------------------------------------------------------------- toggle

\* mutant: the status set to "frozen" whatever it was
switch_queue_member_status_freeze(p) ==
    /\ proc[p].pc = "t_commit"
    /\ LET cur == get_queue_member_by_user_id_and_queue_id(
                      proc[p].user_id, proc[p].queue_id)
       IN  IF cur = NoRow
           THEN /\ Finish(p, "StaleDataError")
                /\ UNCHANGED queue_members
           ELSE /\ queue_members' = (queue_members \ {cur}) \cup
                                    {[cur EXCEPT !.status = "frozen"]}
                /\ Goto(p, "refresh")
    /\ UNCHANGED <<catalog, submissions, registry,
                   history>>

\* queue_member.status = "active" if current_status == "frozen" else "frozen"
\* await session.commit(): UPDATE queue_members SET status WHERE id
switch_queue_member_status_commit(p) ==
    /\ proc[p].pc = "t_commit"
    /\ LET cur == get_queue_member_by_user_id_and_queue_id(
                      proc[p].user_id, proc[p].queue_id)
           new_status == IF proc[p].queue_member.status = "frozen"
                         THEN "active" ELSE "frozen"
       IN  IF cur = NoRow
           THEN /\ Finish(p, "StaleDataError")
                /\ UNCHANGED queue_members
           ELSE /\ queue_members' = (queue_members \ {cur}) \cup
                                    {[cur EXCEPT !.status = new_status]}
                /\ Goto(p, "refresh")
    /\ UNCHANGED <<catalog, submissions, registry,
                   history>>

\* ------------------------------------------------------------------ leave

\* await session.delete(queue_member); await session.commit()
leave_queue_delete(p) ==
    /\ proc[p].pc = "l_delete"
    /\ queue_members' = queue_members \
           {get_queue_member_by_user_id_and_queue_id(
                proc[p].user_id, proc[p].queue_id)}
    /\ Goto(p, "l_members")
    /\ UNCHANGED <<catalog, submissions, registry,
                   history>>

\* queue_members = await get_queue_members_by_queue_id(...)
leave_queue_read_members(p) ==
    /\ proc[p].pc = "l_members"
    /\ proc' = [proc EXCEPT
          ![p].members = get_queue_members_by_queue_id(proc[p].queue_id),
          ![p].pc = "l_renumber"]
    /\ UNCHANGED <<db, registry, history>>

\* mutant: the comparison of the loop reversed
TrailingBelow(members, removed) ==
    {m \in members : m.position < removed.position}

\* mutant: the comparison of the loop off by one
TrailingSkipNext(members, removed) ==
    {m \in members : m.position > removed.position + 1}

\* the rows the loop changes: member.position > queue_member.position
Trailing(members, removed) ==
    {m \in members : m.position > removed.position}

\* for member in queue_members: ... member.position -= 1
\* await session.commit(): UPDATE queue_members SET position WHERE id,
\* one statement per changed object, the value computed from the row as read
leave_queue_renumber(p) ==
    /\ proc[p].pc = "l_renumber"
    /\ LET moved == Trailing(proc[p].members, proc[p].queue_member)
           gone  == {m \in moved :
                       get_queue_member_by_user_id_and_queue_id(
                           m.user_id, m.queue_id) = NoRow}
           NewRow(x) ==
               IF \E m \in moved : m.user_id = x.user_id
                                   /\ m.queue_id = x.queue_id
               THEN LET m == CHOOSE m \in moved :
                                 m.user_id = x.user_id
                                 /\ m.queue_id = x.queue_id
                    IN  [x EXCEPT !.position = m.position - 1]
               ELSE x
       IN  IF gone # {}
           THEN /\ Finish(p, "StaleDataError")
                /\ UNCHANGED queue_members
           ELSE /\ queue_members' = {NewRow(x) : x \in queue_members}
                /\ Goto(p, IF proc[p].leave_and_mark THEN "l_tasks"
                                                     ELSE "notify")
    /\ UNCHANGED <<catalog, submissions, registry,
                   history>>

\* mutant: the tasks sorted by id in descending order
RECURSIVE SortedByIdDescending(_)
SortedByIdDescending(S) ==
    IF S = {} THEN <<>>
    ELSE <<MaxOf(S)>> \o SortedByIdDescending(S \ {MaxOf(S)})

\* tasks.sort(key=lambda t: t.id): the ids of S in ascending order
RECURSIVE SortedById(_)
SortedById(S) ==
    IF S = {} THEN <<>>
    ELSE <<MinOf(S)>> \o SortedById(S \ {MinOf(S)})

\* tasks = await get_tasks_by_subject_id(...); tasks.sort(...)
leave_queue_read_tasks(p) ==
    /\ proc[p].pc = "l_tasks"
    /\ proc' = [proc EXCEPT ![p].tasks = SortedById(Tasks),
                            ![p].pc = "l_find"]
    /\ UNCHANGED <<db, registry, history>>

\* for task in tasks: if not await get_submission_by_user_id_and_task_id
leave_queue_find_task(p) ==
    /\ proc[p].pc = "l_find"
    /\ IF proc[p].tasks = <<>>
       THEN Goto(p, "notify")
       ELSE IF get_submission_by_user_id_and_task_id(
                   proc[p].user_id, Head(proc[p].tasks))
            THEN proc' = [proc EXCEPT ![p].tasks = Tail(proc[p].tasks)]
            ELSE Goto(p, "l_submit")
    /\ UNCHANGED <<db, registry, history>>

\* crud.submissions.create_submission: "ok" or the exception it raises
create_submission_result(u, t) ==
    IF t \notin Tasks THEN "NoEntityFoundException"
    ELSE IF ~check_if_user_is_workspace_member(u)
         THEN "UserIsNotWorkspaceAdminException"
    ELSE IF get_submission_by_user_id_and_task_id(u, t)
         THEN "UniqueConstraintViolationException"
    ELSE "ok"

\* await create_submission(task_id=task.id, ...); break
leave_queue_create_submission(p) ==
    /\ proc[p].pc = "l_submit"
    /\ LET t == Head(proc[p].tasks)
           res == create_submission_result(proc[p].user_id, t)
       IN  IF res = "ok"
           THEN /\ submissions' = submissions \cup
                                  {Submission(proc[p].user_id, t)}
                /\ Goto(p, "notify")
           ELSE /\ Finish(p, res)
                /\ UNCHANGED submissions
    /\ UNCHANGED <<catalog, queue_members, registry,
                   history>>

\* POST /submissions/{tid}: the handler as one step (it commits once)
create_submission(u, t) ==
    /\ create_submission_result(u, t) = "ok"
    /\ submissions' = submissions \cup {Submission(u, t)}
    /\ UNCHANGED <<catalog, queue_members, registry,
                   proc, history>>

\* ----------------------------------------------------------------- queues

\* if not await get_subject_by_id(session, subject_id): raise ForeignKey...
check_foreign_key_subject_id(sid) == sid = ExistingSubject

\* crud.queues.create_queue up to session.add: "ok" or the exception raised
create_queue_result(u, sid) ==
    IF ~check_foreign_key_subject_id(sid)
    THEN "ForeignKeyViolationException"
    ELSE IF ~check_if_user_is_workspace_member(u)
         THEN "UserIsNotWorkspaceAdminException"
    ELSE IF get_queue_by_subject_id(sid) # NoQueue
         THEN "UniqueConstraintViolationException"
    ELSE "ok"

\* crud.queues.create_queue: the handler as one step (it commits once)
create_queue(p) ==
    /\ proc[p].pc = "create_queue"
    /\ LET result == create_queue_result(proc[p].user_id, proc[p].subject_id)
       IN  /\ Finish(p, result)
           /\ IF result = "ok"
              THEN /\ queues_id_seq' = queues_id_seq + 1
                   /\ queues' = queues \cup
                          {Queue(queues_id_seq + 1, proc[p].subject_id,
                                 proc[p].members_can_freeze)}
              ELSE UNCHANGED <<queues, queues_id_seq>>
    /\ UNCHANGED <<workspace_members, queue_members, submissions, registry,
                   history>>

\* check_foreign_key_subject_id, then get_queue_by_subject_id(
\* constraint_check=False, check_admin=True): "ok" or the exception raised
get_queue_by_subject_id_result(u, sid) ==
    IF ~check_foreign_key_subject_id(sid)
    THEN "ForeignKeyViolationException"
    ELSE IF get_queue_by_subject_id(sid) = NoQueue
         THEN "NoEntityFoundException"
    ELSE IF ~check_if_user_is_workspace_admin(u)
         THEN "UserIsNotWorkspaceAdminException"
    ELSE "ok"

\* crud.queues.update_queue: the handler as one step (it commits once)
update_queue(p) ==
    /\ proc[p].pc = "update_queue"
    /\ LET result == get_queue_by_subject_id_result(
                         proc[p].user_id, proc[p].subject_id)
           queue == get_queue_by_subject_id(proc[p].subject_id)
       IN  /\ Finish(p, result)
           /\ IF result = "ok"
              THEN queues' = (queues \ {queue}) \cup
                       {[queue EXCEPT !.members_can_freeze =
                                          proc[p].members_can_freeze]}
              ELSE UNCHANGED queues
    /\ UNCHANGED <<workspace_members, queues_id_seq, queue_members,
                   submissions, registry, history>>

\* crud.queues.delete_queue: the handler as one step (it commits once).
\* Queue.members has no delete cascade: the flush first sets queue_id of the
\* members to NULL, which the NOT NULL column rejects
delete_queue(p) ==
    /\ proc[p].pc = "delete_queue"
    /\ LET result == get_queue_by_subject_id_result(
                         proc[p].user_id, proc[p].subject_id)
           queue == get_queue_by_subject_id(proc[p].subject_id)
       IN  IF result # "ok"
           THEN Finish(p, result) /\ UNCHANGED queues
           ELSE IF get_queue_members_by_queue_id(queue.id) # {}
           THEN Finish(p, "IntegrityError") /\ UNCHANGED queues
           ELSE Finish(p, "ok") /\ queues' = queues \ {queue}
    /\ UNCHANGED <<workspace_members, queues_id_seq, queue_members,
                   submissions, registry, history>>

\* ------------------------------------------------------ workspace members

\* the statuses of a workspace member
Statuses == {"approved", "pending", "rejected"}

\* POST /workspace_members/{wid}: the handler as one step (it commits once);
\* the caller gets a row of status pending unless it has a row already
create_workspace_member(u) ==
    /\ ~get_workspace_member_by_user_id_and_workspace_id(u)
    /\ workspace_members' =
           workspace_members \cup {WorkspaceMember(u, FALSE, "pending")}
    /\ UNCHANGED <<queues, queues_id_seq, queue_members, submissions,
                   registry, proc, history>>

\* crud.workspace_members.update_workspace_member setting the status: the
\* handler as one step (it commits once)
update_workspace_member(u, id, st) ==
    /\ get_workspace_member_by_id(id) # NoMember
    /\ check_if_user_is_workspace_admin(u)
    /\ get_workspace_member_by_id(id).status # st
    /\ workspace_members' =
           (workspace_members \ {get_workspace_member_by_id(id)}) \cup
               {[get_workspace_member_by_id(id) EXCEPT !.status = st]}
    /\ UNCHANGED <<queues, queues_id_seq, queue_members, submissions,
                   registry, proc, history>>

\* DELETE /workspace_members/{id}
delete_workspace_member_request(p, u, id) ==
    /\ proc[p].pc = "idle"
    /\ proc' = [proc EXCEPT ![p] =
                  [IdleProc EXCEPT !.pc = "w_get",
                                   !.kind = "delete_workspace_member",
                                   !.user_id = u,
                                   !.workspace_member_id = id]]
    /\ Started(p)
    /\ UNCHANGED <<db, registry>>

\* delete_workspace_member up to session.delete: the row, the
\* administrator check unless the caller removes itself, and the refusal
\* to remove an administrator
delete_workspace_member_check(p) ==
    /\ proc[p].pc = "w_get"
    /\ LET workspace_member ==
               get_workspace_member_by_id(proc[p].workspace_member_id)
       IN  IF workspace_member = NoMember
           THEN Finish(p, "NoEntityFoundException")
           ELSE IF /\ proc[p].user_id # workspace_member.user_id
                   /\ ~check_if_user_is_workspace_admin(proc[p].user_id)
           THEN Finish(p, "UserIsNotWorkspaceAdminException")
           ELSE IF workspace_member.is_admin
           THEN Finish(p, "AdminSuicideException")
           ELSE proc' = [proc EXCEPT
                            ![p].workspace_member = workspace_member,
                            ![p].pc = "w_delete"]
    /\ UNCHANGED <<db, registry, history>>

\* await session.delete(workspace_member); await session.commit()
delete_workspace_member_commit(p) ==
    /\ proc[p].pc = "w_delete"
    /\ workspace_members' =
           workspace_members \
               {get_workspace_member_by_id(proc[p].workspace_member.user_id)}
    /\ Goto(p, "w_tasks")
    /\ UNCHANGED <<queues, queues_id_seq, queue_members, submissions,
                   registry, history>>

\* subjects = await get_subjects_by_workspace_id(...); the tasks of the
\* subjects
delete_workspace_member_read_tasks(p) ==
    /\ proc[p].pc = "w_tasks"
    /\ proc' = [proc EXCEPT ![p].tasks = SortedById(Tasks),
                            ![p].pc = "w_submission"]
    /\ UNCHANGED <<db, registry, history>>

\* for task in tasks: if sub := await get_submission_by_user_id_and_task_id:
\*     await session.delete(sub); await session.commit()
delete_workspace_member_submission(p) ==
    /\ proc[p].pc = "w_submission"
    /\ IF proc[p].tasks = <<>>
       THEN Goto(p, "w_queue") /\ UNCHANGED submissions
       ELSE /\ submissions' = submissions \
                   {Submission(proc[p].workspace_member.user_id,
                               Head(proc[p].tasks))}
            /\ proc' = [proc EXCEPT ![p].tasks = Tail(proc[p].tasks)]
    /\ UNCHANGED <<catalog, queue_members, registry, history>>

\* for subj in subjects: queue = await get_queue_by_subject_id(...)
delete_workspace_member_read_queues(p) ==
    /\ proc[p].pc = "w_queue"
    /\ LET queue == get_queue_by_subject_id(ExistingSubject)
       IN  IF queue = NoQueue
           THEN Finish(p, "ok")
           ELSE proc' = [proc EXCEPT ![p].queue_id = queue.id,
                                     ![p].pc = "w_member"]
    /\ UNCHANGED <<db, registry, history>>

\* for queue in queues:
\*     if member := await get_queue_member_by_user_id_and_queue_id(...)
delete_workspace_member_find_slot(p) ==
    /\ proc[p].pc = "w_member"
    /\ LET member == get_queue_member_by_user_id_and_queue_id(
                         proc[p].workspace_member.user_id, proc[p].queue_id)
       IN  IF member = NoRow
           THEN Finish(p, "ok")
           ELSE proc' = [proc EXCEPT ![p].queue_member = member,
                                     ![p].pc = "w_slot"]
    /\ UNCHANGED <<db, registry, history>>

\* await session.delete(member); await session.commit(); the notification
\* of the queue's viewers follows
delete_workspace_member_delete_slot(p) ==
    /\ proc[p].pc = "w_slot"
    /\ queue_members' = queue_members \
           {get_queue_member_by_user_id_and_queue_id(
                proc[p].workspace_member.user_id, proc[p].queue_id)}
    /\ Goto(p, "notify")
    /\ UNCHANGED <<catalog, submissions, registry, history>>

\* ------------------------------------------------ snapshot and broadcast

\* sorted(queue_with_members.members, key=lambda memb: memb.position):
\* the rows in ascending position; rows of equal position keep the order
\* the database returned them in, which no ORDER BY fixes
SortedByPosition(rows) ==
    {s \in [1..Cardinality(rows) -> rows] :
        /\ \A i, j \in DOMAIN s : i # j => s[i] # s[j]
        /\ \A i, j \in DOMAIN s : i < j => s[i].position <= s[j].position}

\* crud.queues.get_queue_for_ws_message: the possible snapshots of a queue
get_queue_for_ws_message(qid) ==
    SortedByPosition(get_queue_members_by_queue_id(qid))

\* the websockets in the registry's list of a queue id
Listening(qid) ==
    IF qid \in DOMAIN active_connections
    THEN {active_connections[qid][i] : i \in DOMAIN active_connections[qid]}
    ELSE {}

\* ConnectionManager.notify_subs_about_queue_update, first statement;
\* queue_with_members is None when the queue row is gone
notify_subs_about_queue_update(p) ==
    /\ proc[p].pc = "notify"
    /\ IF get_queue_by_id(proc[p].queue_id) = NoQueue
       THEN Finish(p, "AttributeError")
       ELSE \E snap \in get_queue_for_ws_message(proc[p].queue_id) :
              proc' = [proc EXCEPT ![p].snapshot = snap,
                                   ![p].idx = 1,
                                   ![p].pc = "broadcast"]
    /\ UNCHANGED <<db, registry, history>>

\* history: the websockets registered since the loop of handler p's
\* broadcast started (the loop starts with its first send)
Audience(p) ==
    IF proc[p].idx = 1 THEN Listening(proc[p].queue_id)
                       ELSE proc[p].audience

\* a text sent on a websocket
Delivery(connection, snapshot) ==
    [connection |-> connection, text |-> snapshot]

\* mutant: the loop of broadcast left after its first send
broadcast_first_only(p) ==
    /\ proc[p].pc = "broadcast"
    /\ LET q == proc[p].queue_id
       IN  IF q \notin DOMAIN active_connections
              \/ proc[p].idx > Len(active_connections[q])
           THEN Finish(p, "ok") /\ UNCHANGED delivered
           ELSE LET connection == active_connections[q][proc[p].idx]
                IN  /\ proc' = [proc EXCEPT
                          ![p].sent = Append(proc[p].sent, connection),
                          ![p].audience = Audience(p),
                          ![p].pc = "done",
                          ![p].result = IF connection \in dropped
                                        THEN "WebSocketDisconnect" ELSE "ok"]
                    /\ delivered' =
                          IF connection \in dropped THEN delivered
                          ELSE Append(delivered,
                                      Delivery(connection, proc[p].snapshot))
    /\ UNCHANGED <<db, registry, quiescent, since>>

\* ConnectionManager.broadcast: one iteration of
\*   for connection in self.active_connections[queue_id]:
\*       await connection.send_text(...)
\* send_text raises when the client of the websocket has gone
broadcast(p) ==
    /\ proc[p].pc = "broadcast"
    /\ LET q == proc[p].queue_id
       IN  IF q \notin DOMAIN active_connections
              \/ proc[p].idx > Len(active_connections[q])
           THEN Finish(p, "ok") /\ UNCHANGED delivered
           ELSE LET connection == active_connections[q][proc[p].idx]
                IN  IF connection \in dropped
                    THEN /\ proc' = [proc EXCEPT
                               ![p].sent = Append(proc[p].sent, connection),
                               ![p].audience = Audience(p),
                               ![p].pc = "done",
                               ![p].result = "WebSocketDisconnect"]
                         /\ UNCHANGED delivered
                    ELSE /\ proc' = [proc EXCEPT
                               ![p].sent = Append(proc[p].sent, connection),
                               ![p].audience = Audience(p),
                               ![p].idx = proc[p].idx + 1]
                         /\ delivered' =
                               Append(delivered,
                                      Delivery(connection, proc[p].snapshot))
    /\ UNCHANGED <<db, registry, quiescent, since>>

\* ------------------------------------------------- the connection registry

Registered(c) ==
    \E q \in DOMAIN active_connections :
        \E i \in DOMAIN active_connections[q] : active_connections[q][i] = c

\* ConnectionManager.connect
connect(websocket, queue_id) ==
    LET d == IF queue_id \notin DOMAIN active_connections
             THEN [k \in DOMAIN active_connections \cup {queue_id} |->
                     IF k = queue_id THEN <<>> ELSE active_connections[k]]
             ELSE active_connections
    IN  [d EXCEPT ![queue_id] = Append(d[queue_id], websocket)]

\* list.remove(x): drops the first occurrence of x
Remove(list, x) ==
    LET i == MinOf({k \in DOMAIN list : list[k] = x})
    IN  SubSeq(list, 1, i - 1) \o SubSeq(list, i + 1, Len(list))

\* mutant: the entry of the queue kept when its list has become empty
disconnect_keep_entry(websocket, queue_id) ==
    [active_connections EXCEPT
        ![queue_id] = Remove(active_connections[queue_id], websocket)]

\* mutant: the connection left in the registry
disconnect_nothing(websocket, queue_id) == active_connections

\* ConnectionManager.disconnect
disconnect(websocket, queue_id) ==
    LET rest == Remove(active_connections[queue_id], websocket)
    IN  IF rest = <<>>
        THEN [k \in DOMAIN active_connections \ {queue_id} |->
                active_connections[k]]
        ELSE [active_connections EXCEPT ![queue_id] = rest]

\* the handlers after disconnect(websocket, queue_id): the loop of a running
\* broadcast iterates the list object it started on, which is empty and out
\* of the registry once its last websocket has been removed; `audience' (a
\* history field) keeps the websockets registered since the loop started
Unregistered(websocket, queue_id) ==
    [p \in Procs |->
        IF proc[p].pc = "broadcast" /\ proc[p].queue_id = queue_id
        THEN [proc[p] EXCEPT
                 !.audience = @ \ {websocket},
                 !.idx = IF Listening(queue_id) = {websocket} /\ @ > 1
                         THEN Cardinality(Conns) + 1 ELSE @]
        ELSE proc[p]]

\* mutant: the endpoint without its membership check
websocket_endpoint_result_unchecked(token, queue_id) ==
    IF token = InvalidToken THEN "AccessTokenException"
    ELSE IF get_queue_by_id(queue_id) = NoQueue
         THEN "ForeignKeyViolationException"
    ELSE "ok"

\* websocket_endpoint up to manager.connect: "ok" or the exception raised by
\* validate_access_token (a valid token is the id of its user),
\* check_foreign_key_queue_id or check_if_user_is_permitted_to_get_tasks
websocket_endpoint_result(token, queue_id) ==
    IF token = InvalidToken THEN "AccessTokenException"
    ELSE IF get_queue_by_id(queue_id) = NoQueue
         THEN "ForeignKeyViolationException"
    ELSE IF ~check_if_user_is_workspace_member(token)
         THEN "UserIsNotWorkspaceAdminException"
    ELSE "ok"

\* websocket_endpoint up to the receive loop, for a websocket no coroutine
\* is serving: when the checks pass the websocket is accepted and
\* registered, otherwise the exception ends the attempt
websocket_endpoint(websocket, token, queue_id) ==
    /\ endpoint[websocket].pc \in {"closed", "ended"}
    /\ LET result == websocket_endpoint_result(token, queue_id)
       IN  IF result = "ok"
           THEN /\ active_connections' = connect(websocket, queue_id)
                /\ endpoint' = [endpoint EXCEPT ![websocket] =
                       [pc |-> "receive", token |-> token,
                        queue_id |-> queue_id, result |-> "none"]]
           ELSE /\ UNCHANGED active_connections
                /\ endpoint' = [endpoint EXCEPT ![websocket] =
                       [pc |-> "ended", token |-> token,
                        queue_id |-> queue_id, result |-> result]]
    /\ UNCHANGED <<db, dropped, proc, history>>

\* the client of a registered websocket closes it or loses the network
client_disconnects(websocket) ==
    /\ Registered(websocket)
    /\ websocket \notin dropped
    /\ dropped' = dropped \cup {websocket}
    /\ UNCHANGED <<db, active_connections, endpoint, proc, history>>

\* the coroutine of websocket_endpoint ends by the exception named ("ok":
\* it returns) and the websocket is closed
EndpointEnds(websocket, result) ==
    /\ endpoint' = [endpoint EXCEPT ![websocket].pc = "ended",
                                    ![websocket].result = result]
    /\ dropped' = dropped \ {websocket}

\* data = await websocket.receive_text(); if data == "get_queue":
websocket_endpoint_receive_text(websocket) ==
    /\ endpoint[websocket].pc = "receive"
    /\ websocket \notin dropped
    /\ endpoint' = [endpoint EXCEPT ![websocket].pc = "get_queue"]
    /\ UNCHANGED <<db, active_connections, dropped, proc, history>>

\* casted_queue = await get_queue_for_ws_message(...)
\* await manager.send_personal_message(casted_queue, websocket)
\* queue_with_members is None when the queue row is gone (AttributeError,
\* handled by `except Exception'); send_text raises WebSocketDisconnect
\* when the client has gone
websocket_endpoint_get_queue(websocket) ==
    /\ endpoint[websocket].pc = "get_queue"
    /\ LET q == endpoint[websocket].queue_id
       IN  IF get_queue_by_id(q) = NoQueue
           THEN /\ active_connections' = disconnect(websocket, q)
                /\ proc' = Unregistered(websocket, q)
                /\ EndpointEnds(websocket, "UnexpectedWebsocketException")
           ELSE IF websocket \in dropped
           THEN /\ active_connections' = disconnect(websocket, q)
                /\ proc' = Unregistered(websocket, q)
                /\ EndpointEnds(websocket, "ok")
           ELSE /\ endpoint' = [endpoint EXCEPT ![websocket].pc = "receive"]
                /\ UNCHANGED <<active_connections, dropped, proc>>
    /\ UNCHANGED <<db, history>>

\* websocket_endpoint: receive_text raises WebSocketDisconnect
websocket_endpoint_disconnect(websocket) ==
    /\ endpoint[websocket].pc = "receive"
    /\ websocket \in dropped
    /\ active_connections' =
           disconnect(websocket, endpoint[websocket].queue_id)
    /\ proc' = Unregistered(websocket, endpoint[websocket].queue_id)
    /\ EndpointEnds(websocket, "ok")
    /\ UNCHANGED <<db, history>>

\* ---------------------------------------------------------------- failures

\* the handler dies at an await: the database connection is lost, the
\* worker is stopped or the task is cancelled; what it committed stays
Interrupt(p) ==
    /\ proc[p].pc \notin {"idle", "done"}
    /\ Finish(p, "Interrupted")
    /\ UNCHANGED <<db, registry, history>>

\* ---------------------------------------------------------- specifications

\* one awaited statement of a handler, by the handler it belongs to
CommonStep(p) ==
    \/ check_foreign_key_queue_id(p)
    \/ check_if_user_is_permitted_to_get_tasks(p)
    \/ complex_queue_member_check(p)
    \/ notify_subs_about_queue_update(p)
    \/ broadcast(p)
    \/ Return(p)

JoinStep(p) ==
    \/ check_complex_unique_user_id_queue_id(p)
    \/ create_queue_member_position(p)
    \/ create_queue_member_commit(p)
    \/ refresh(p)

LeaveStep(p) ==
    \/ leave_queue_delete(p)
    \/ leave_queue_read_members(p)
    \/ leave_queue_renumber(p)

MarkStep(p) ==
    \/ leave_queue_read_tasks(p)
    \/ leave_queue_find_task(p)
    \/ leave_queue_create_submission(p)

WorkspaceMemberStep(p) ==
    \/ delete_workspace_member_check(p)
    \/ delete_workspace_member_commit(p)
    \/ delete_workspace_member_read_tasks(p)
    \/ delete_workspace_member_submission(p)
    \/ delete_workspace_member_read_queues(p)
    \/ delete_workspace_member_find_slot(p)
    \/ delete_workspace_member_delete_slot(p)

QueueStep(p) ==
    \/ create_queue(p)
    \/ update_queue(p)
    \/ delete_queue(p)

\* websockets come and go; `tokens' are the access tokens they present
RegistryStep(tokens) ==
    \/ \E c \in Conns, t \in tokens, q \in QueueIdInputs :
          websocket_endpoint(c, t, q)
    \/ \E c \in Conns : client_disconnects(c)
    \/ \E c \in Conns : websocket_endpoint_disconnect(c)

\* the clients of the websockets ask for the queue
ReceiveStep ==
    \/ \E c \in Conns : websocket_endpoint_receive_text(c)
    \/ \E c \in Conns : websocket_endpoint_get_queue(c)

\* the handler slot that serves the requests when they come one at a time
SeqProc == MinOf(Procs)

\* SpecSeq: join, toggle and leave, each handler running to completion
\* before the next request is served; websockets change between requests
NextSeq ==
    \/ \E u \in Users, q \in QueueIdInputs :
          AllIdle /\ create_queue_member_request(SeqProc, u, q)
    \/ \E u \in Users, q \in QueueIdInputs :
          AllIdle /\ partial_update_queue_member(SeqProc, u, q)
    \/ \E u \in Users, q \in QueueIdInputs :
          AllIdle /\ delete_queue_member(SeqProc, u, q)
    \/ CommonStep(SeqProc)
    \/ JoinStep(SeqProc)
    \/ switch_queue_member_status_commit(SeqProc)
    \/ LeaveStep(SeqProc)
    \/ AllIdle /\ RegistryStep({WorkspaceAdmin})

SpecSeq == Init /\ [][NextSeq]_vars

\* the users whose requests SpecMark and SpecFail serve
MarkUsers == {1, 2, 4}

\* SpecMark: join, leave, leave-and-mark and the submissions endpoint, one
\* request at a time, nobody watching
NextMark ==
    \/ \E u \in MarkUsers, q \in QueueIdInputs :
          AllIdle /\ create_queue_member_request(SeqProc, u, q)
    \/ \E u \in MarkUsers, q \in QueueIdInputs :
          AllIdle /\ delete_queue_member(SeqProc, u, q)
    \/ \E u \in MarkUsers, q \in QueueIdInputs :
          AllIdle /\ delete_queue_member_and_submit_nearest_task(SeqProc, u, q)
    \/ \E u \in MarkUsers, t \in Tasks : AllIdle /\ create_submission(u, t)
    \/ CommonStep(SeqProc)
    \/ JoinStep(SeqProc)
    \/ LeaveStep(SeqProc)
    \/ MarkStep(SeqProc)

SpecMark == Init /\ [][NextMark]_vars

\* SpecFail: SpecMark with handlers that may die at any await
NextFail == NextMark \/ Interrupt(SeqProc)

SpecFail == Init /\ [][NextFail]_vars

\* the positions of the rows are exactly 0 .. n-1
Contiguous(rows) ==
    {m.position : m \in rows} = 0 .. (Cardinality(rows) - 1)

\* no handler other than p is serving a request of user u
NoOtherHandlerOf(u, p) ==
    \A o \in Procs \ {p} :
        proc[o].pc \in {"idle", "done"} \/ proc[o].user_id # u

\* a batch is a maximal set of handlers that overlap in time: a new batch is
\* explored only from a queue that is still well formed, and a handler joins
\* the running batch only while the batch has fewer than MaxBatch handlers
MayBegin(u, p) ==
    /\ NoOtherHandlerOf(u, p)
    /\ IF Quiescent THEN Contiguous(queue_members) ELSE since < MaxBatch

\* the users whose requests Spec serves
ConcUsers == {1, 2, 3}

\* Spec: joins and leaves of different users served concurrently, the
\* handlers interleaving at every await; nobody watching
Next ==
    \/ \E p \in Procs, u \in ConcUsers :
          MayBegin(u, p) /\ create_queue_member_request(p, u, ExistingQueue)
    \/ \E p \in Procs, u \in ConcUsers :
          MayBegin(u, p) /\ delete_queue_member(p, u, ExistingQueue)
    \/ \E p \in Procs : CommonStep(p)
    \/ \E p \in Procs : JoinStep(p)
    \/ \E p \in Procs : LeaveStep(p)

Spec == Init /\ [][Next]_vars

\* the users whose requests SpecLive serves
LiveUsers == {1, 2}

\* SpecLive: joins, toggles and leaves of different users served
\* concurrently while websockets watch the queue; the websockets connect
\* between the requests and stay
NextLive ==
    \/ \E p \in Procs, u \in LiveUsers :
          MayBegin(u, p) /\ create_queue_member_request(p, u, ExistingQueue)
    \/ \E p \in Procs, u \in LiveUsers :
          MayBegin(u, p) /\ partial_update_queue_member(p, u, ExistingQueue)
    \/ \E p \in Procs, u \in LiveUsers :
          MayBegin(u, p) /\ delete_queue_member(p, u, ExistingQueue)
    \/ \E p \in Procs : CommonStep(p)
    \/ \E p \in Procs : JoinStep(p)
    \/ \E p \in Procs : switch_queue_member_status_commit(p)
    \/ \E p \in Procs : LeaveStep(p)
    \/ \E c \in Conns :
          AllIdle /\ websocket_endpoint(c, WorkspaceAdmin, ExistingQueue)

SpecLive == Init /\ [][NextLive]_vars

\* the access tokens the websockets of SpecWs present: none, the
\* administrator's and the one of a user outside the workspace
WsTokens == {InvalidToken, WorkspaceAdmin, 4}

\* SpecWs: websockets connect, ask for the queue and go while the
\* administrator deletes and creates the queue
NextWs ==
    \/ \E sid \in SubjectIdInputs :
          delete_queue_by_subject_id(SeqProc, WorkspaceAdmin, sid)
    \/ \E sid \in SubjectIdInputs, flag \in BOOLEAN :
          create_queue_request(SeqProc, WorkspaceAdmin, sid, flag)
    \/ delete_queue(SeqProc)
    \/ create_queue(SeqProc)
    \/ Return(SeqProc)
    \/ RegistryStep(WsTokens)
    \/ ReceiveStep

SpecWs == Init /\ [][NextWs]_vars

\* the callers of the queues router in SpecAdmin: the administrator, an
\* ordinary member and a user outside the workspace
AdminUsers == {1, 2, 4}

\* the users who join, toggle and leave in SpecAdmin
AdminMembers == {1, 2}

\* SpecAdmin: the queues router (create, update, delete) next to join,
\* toggle and leave, one request at a time, nobody watching
NextAdmin ==
    \/ \E u \in AdminUsers, sid \in SubjectIdInputs, flag \in BOOLEAN :
          AllIdle /\ create_queue_request(SeqProc, u, sid, flag)
    \/ \E u \in AdminUsers, sid \in SubjectIdInputs, flag \in BOOLEAN :
          AllIdle /\ update_queue_by_subject_id(SeqProc, u, sid, flag)
    \/ \E u \in AdminUsers, sid \in SubjectIdInputs :
          AllIdle /\ delete_queue_by_subject_id(SeqProc, u, sid)
    \/ \E u \in AdminMembers, q \in QueueIdInputs :
          AllIdle /\ create_queue_member_request(SeqProc, u, q)
    \/ \E u \in AdminMembers, q \in QueueIdInputs :
          AllIdle /\ partial_update_queue_member(SeqProc, u, q)
    \/ \E u \in AdminMembers, q \in QueueIdInputs :
          AllIdle /\ delete_queue_member(SeqProc, u, q)
    \/ QueueStep(SeqProc)
    \/ CommonStep(SeqProc)
    \/ JoinStep(SeqProc)
    \/ switch_queue_member_status_commit(SeqProc)
    \/ LeaveStep(SeqProc)

SpecAdmin == Init /\ [][NextAdmin]_vars

\* the users whose requests SpecSame serves
SameUsers == {1, 2}

\* no handler other than p is serving a leave
NoLeaveBut(p) ==
    \A o \in Procs \ {p} : proc[o].pc = "idle" \/ proc[o].kind # "leave"

\* SpecSame: joins served concurrently, two joins of the same user
\* included; a leave is served alone
NextSame ==
    \/ \E p \in Procs, u \in SameUsers :
          /\ NoLeaveBut(p)
          /\ IF Quiescent THEN Contiguous(queue_members)
                          ELSE since < MaxBatch
          /\ create_queue_member_request(p, u, ExistingQueue)
    \/ \E p \in Procs, u \in SameUsers :
          AllIdle /\ delete_queue_member(p, u, ExistingQueue)
    \/ \E p \in Procs : CommonStep(p)
    \/ \E p \in Procs : JoinStep(p)
    \/ \E p \in Procs : LeaveStep(p)

SpecSame == Init /\ [][NextSame]_vars

\* the users whose requests SpecCast serves
CastUsers == {1, 2}

\* SpecCast: joins and toggles served one at a time while websockets
\* register and unregister at any moment, also during a broadcast
NextCast ==
    \/ \E u \in CastUsers :
          AllIdle /\ create_queue_member_request(SeqProc, u, ExistingQueue)
    \/ \E u \in CastUsers :
          AllIdle /\ partial_update_queue_member(SeqProc, u, ExistingQueue)
    \/ CommonStep(SeqProc)
    \/ JoinStep(SeqProc)
    \/ switch_queue_member_status_commit(SeqProc)
    \/ RegistryStep({WorkspaceAdmin})

SpecCast == Init /\ [][NextCast]_vars

\* the users whose requests SpecMembers serves: the administrator and an
\* ordinary member
MemberUsers == {1, 2}

\* SpecMembers: members are removed from the workspace and come back, next
\* to join, leave and the submissions endpoint; one request at a time,
\* websockets connect between the requests and stay
NextMembers ==
    \/ \E u \in MemberUsers : AllIdle /\ create_workspace_member(u)
    \/ \E u, id \in MemberUsers :
          AllIdle /\ delete_workspace_member_request(SeqProc, u, id)
    \/ \E u \in MemberUsers :
          AllIdle /\ create_queue_member_request(SeqProc, u, ExistingQueue)
    \/ \E u \in MemberUsers :
          AllIdle /\ delete_queue_member(SeqProc, u, ExistingQueue)
    \/ \E u \in MemberUsers :
          AllIdle /\ create_submission(u, MinOf(Tasks))
    \/ \E c \in Conns :
          AllIdle /\ websocket_endpoint(c, WorkspaceAdmin, ExistingQueue)
    \/ WorkspaceMemberStep(SeqProc)
    \/ CommonStep(SeqProc)
    \/ JoinStep(SeqProc)
    \/ LeaveStep(SeqProc)

SpecMembers == Init /\ [][NextMembers]_vars

\* the user of SpecPending: no membership at the start
PendingUser == 4

\* SpecPending: a user asks for membership of the workspace and the
\* administrator approves or rejects, next to the user's joins, toggles and
\* leaves and its websockets; one request at a time
NextPending ==
    \/ AllIdle /\ create_workspace_member(PendingUser)
    \/ \E st \in Statuses :
          AllIdle /\ update_workspace_member(WorkspaceAdmin, PendingUser, st)
    \/ \E u \in {WorkspaceAdmin, PendingUser} :
          AllIdle /\ create_queue_member_request(SeqProc, u, ExistingQueue)
    \/ \E u \in {WorkspaceAdmin, PendingUser} :
          AllIdle /\ partial_update_queue_member(SeqProc, u, ExistingQueue)
    \/ \E u \in {WorkspaceAdmin, PendingUser} :
          AllIdle /\ delete_queue_member(SeqProc, u, ExistingQueue)
    \/ CommonStep(SeqProc)
    \/ JoinStep(SeqProc)
    \/ switch_queue_member_status_commit(SeqProc)
    \/ LeaveStep(SeqProc)
    \/ AllIdle /\ RegistryStep({PendingUser})

SpecPending == Init /\ [][NextPending]_vars

\* the member SpecRemoval removes from the workspace
RemovedUser == 2

\* a handler joins the running batch only while the batch has fewer than
\* MaxBatch handlers
MayOverlap == Quiescent \/ since < MaxBatch

\* SpecRemoval: the administrator removes a member from the workspace while
\* joins are served, the handlers interleaving at every await; the removed
\* user may ask for membership again between the batches
NextRemoval ==
    \/ \E p \in Procs, u \in {WorkspaceAdmin, RemovedUser} :
          MayOverlap /\ create_queue_member_request(p, u, ExistingQueue)
    \/ \E p \in Procs :
          /\ MayOverlap
          /\ delete_workspace_member_request(p, WorkspaceAdmin, RemovedUser)
    \/ AllIdle /\ create_workspace_member(RemovedUser)
    \/ \E p \in Procs : check_foreign_key_queue_id(p)
    \/ \E p \in Procs : check_if_user_is_permitted_to_get_tasks(p)
    \/ \E p \in Procs : notify_subs_about_queue_update(p)
    \/ \E p \in Procs : broadcast(p)
    \/ \E p \in Procs : Return(p)
    \/ \E p \in Procs : JoinStep(p)
    \/ \E p \in Procs : WorkspaceMemberStep(p)

SpecRemoval == Init /\ [][NextRemoval]_vars

\* ================================================================== claims

\* the row user u holds in queue q among `rows', NoRow if none
RowOf(rows, u, q) ==
    IF \E m \in rows : m.user_id = u /\ m.queue_id = q
    THEN CHOOSE m \in rows : m.user_id = u /\ m.queue_id = q
    ELSE NoRow

\* what a leave of user u is specified to make of the rows of the table
AfterLeave(rows, u, q) ==
    LET me == RowOf(rows, u, q)
    IN  {IF m.queue_id = q /\ m.position > me.position
         THEN [m EXCEPT !.position = m.position - 1]
         ELSE m : m \in rows \ {me}}

\* the tasks user u has no submission for among `subs'
Unsubmitted(subs, u) == {t \in Tasks : Submission(u, t) \notin subs}

\* what leave-and-mark of user u is specified to make of the submissions
AfterMark(subs, u) ==
    IF Unsubmitted(subs, u) = {} THEN subs
    ELSE subs \cup {Submission(u, MinOf(Unsubmitted(subs, u)))}

\* handler p has finished a request of this kind
Done(p, kind) == proc[p].pc = "done" /\ proc[p].kind = kind

\* C1: whenever no handler is running (the joins, toggles and leaves so far
\* each ran to completion), the positions of the n members of every queue
\* are exactly 0 .. n-1
C1_Contiguity ==
    Quiescent =>
        \A q \in queues : Contiguous(get_queue_members_by_queue_id(q.id))

\* a leave from the head of a queue of three has completed
C1_Witness ==
    \E p \in Procs :
        /\ Done(p, "leave") /\ proc[p].result = "ok"
        /\ proc[p].queue_member.position = 0
        /\ Cardinality(quiescent.queue_members) = 3
        /\ Cardinality(queue_members) = 2
        /\ \E m \in queue_members : m.status = "frozen"

\* C2: two joins of different users that have both completed never hold the
\* same position in the same queue
C2_DistinctPositions ==
    \A p, o \in Procs :
        ( /\ p # o
          /\ Done(p, "join") /\ proc[p].result = "ok"
          /\ Done(o, "join") /\ proc[o].result = "ok"
          /\ proc[p].queue_id = proc[o].queue_id
          /\ proc[p].user_id # proc[o].user_id )
        => RowOf(queue_members, proc[p].user_id, proc[p].queue_id).position
           # RowOf(queue_members, proc[o].user_id, proc[o].queue_id).position

\* C3: when a join and a leave, or two leaves, that overlapped in time have
\* both finished, the positions of the queue are again exactly 0 .. n-1
C3_ContiguousAfterOverlap ==
    ( /\ since = 2
      /\ \A p \in Procs : proc[p].pc = "done" /\ proc[p].result = "ok"
      /\ \E p \in Procs : proc[p].kind = "leave"
      /\ Contiguous(quiescent.queue_members) )
    => Contiguous(queue_members)

\* C4: a leave that has ended, by returning or by failing at any step, has
\* left either none of its effects in the tables or all of them (row
\* deleted, trailing members renumbered, submission created when marking)
C4_AllOrNothing ==
    \A p \in Procs :
        ( /\ Done(p, "leave")
          /\ RowOf(quiescent.queue_members,
                   proc[p].user_id, proc[p].queue_id) # NoRow )
        => \/ /\ queue_members = quiescent.queue_members
              /\ submissions = quiescent.submissions
           \/ /\ queue_members = AfterLeave(quiescent.queue_members,
                                            proc[p].user_id, proc[p].queue_id)
              /\ submissions = IF proc[p].leave_and_mark
                               THEN AfterMark(quiescent.submissions,
                                              proc[p].user_id)
                               ELSE quiescent.submissions

\* C5: a join that succeeded on a queue of n members holds position n, which
\* is 0 for an empty queue and 1 + the highest position otherwise, is
\* active, and left every other row as it was
C5_JoinAppends ==
    \A p \in Procs :
        (Done(p, "join") /\ proc[p].result = "ok") =>
            LET q == proc[p].queue_id
                before == {m \in quiescent.queue_members : m.queue_id = q}
                new == RowOf(queue_members, proc[p].user_id, q)
            IN  /\ new # NoRow
                /\ new \notin quiescent.queue_members
                /\ new.position = Cardinality(before)
                /\ new.position =
                       IF before = {} THEN 0
                       ELSE 1 + MaxOf({m.position : m \in before})
                /\ new.status = "active"
                /\ queue_members \ {new} = quiescent.queue_members

\* a join into a queue of two members, one of them frozen, has succeeded
C5_Witness ==
    \E p \in Procs :
        /\ Done(p, "join") /\ proc[p].result = "ok"
        /\ Cardinality(quiescent.queue_members) = 2
        /\ \E m \in quiescent.queue_members : m.status = "frozen"
        /\ RowOf(queue_members, proc[p].user_id, proc[p].queue_id).position = 2

\* C6: a leave that succeeded removed exactly the caller's row, moved every
\* row behind it up by one and left the rows before it, and all statuses,
\* as they were
C6_LeaveRenumbers ==
    \A p \in Procs :
        (Done(p, "leave") /\ proc[p].result = "ok") =>
            LET u == proc[p].user_id
                q == proc[p].queue_id
                me == RowOf(quiescent.queue_members, u, q)
            IN  /\ me # NoRow
                /\ RowOf(queue_members, u, q) = NoRow
                /\ Cardinality(queue_members) =
                       Cardinality(quiescent.queue_members) - 1
                /\ \A m \in quiescent.queue_members \ {me} :
                       LET now == RowOf(queue_members, m.user_id, m.queue_id)
                       IN  /\ now.status = m.status
                           /\ m.position > me.position =>
                                  now.position = m.position - 1
                           /\ m.position < me.position =>
                                  now.position = m.position

\* the middle member of a queue of three has left; a frozen member remains
C6_Witness ==
    \E p \in Procs :
        /\ Done(p, "leave") /\ proc[p].result = "ok"
        /\ Cardinality(quiescent.queue_members) = 3
        /\ RowOf(quiescent.queue_members,
                 proc[p].user_id, proc[p].queue_id).position = 1
        /\ \E m \in queue_members : m.status = "frozen" /\ m.position = 1

\* C7: a join of a user who already holds a slot in the queue is answered
\* 409 Conflict and leaves the table of members as it was
C7_DuplicateJoinConflict ==
    \A p \in Procs :
        ( /\ Done(p, "join")
          /\ RowOf(quiescent.queue_members,
                   proc[p].user_id, proc[p].queue_id) # NoRow )
        => /\ proc[p].result = "UniqueConstraintViolationException"
           /\ StatusCode(proc[p].result) = 409
           /\ queue_members = quiescent.queue_members

\* the member at the head of a queue of two has tried to join again
C7_Witness ==
    \E p \in Procs :
        /\ Done(p, "join")
        /\ Cardinality(quiescent.queue_members) = 2
        /\ RowOf(quiescent.queue_members,
                 proc[p].user_id, proc[p].queue_id).position = 0
        /\ StatusCode(proc[p].result) = 409

C9_MarkNextAfterSubmitted ==
    \A p \in Procs :
        ( /\ Done(p, "leave") /\ proc[p].leave_and_mark
          /\ proc[p].result = "ok"
          /\ Unsubmitted(quiescent.submissions, proc[p].user_id) = {1, 3} )
        => Unsubmitted(submissions, proc[p].user_id) = {1}

\* the number of send attempts handler p made on websocket c
Attempts(p, c) ==
    Cardinality({i \in DOMAIN proc[p].sent : proc[p].sent[i] = c})

\* the websockets registered for queue q
ConnectionsOf(q) ==
    IF q \in DOMAIN active_connections
    THEN {active_connections[q][i] : i \in DOMAIN active_connections[q]}
    ELSE {}

\* C10: a join, toggle or leave that succeeded made exactly one send attempt
\* on each websocket registered for the queue and none on any other, and
\* what it sent is the queue as committed by the operation
C10_BroadcastCompleteness ==
    \A p \in Procs :
        (proc[p].pc = "done" /\ proc[p].result = "ok") =>
            LET q == proc[p].queue_id
            IN  /\ \A c \in Conns :
                      Attempts(p, c) = IF c \in ConnectionsOf(q) THEN 1 ELSE 0
                /\ proc[p].snapshot \in get_queue_for_ws_message(q)
                /\ proc[p].snapshot \notin
                       SortedByPosition({m \in quiescent.queue_members :
                                            m.queue_id = q})

\* a join has succeeded while two websockets were registered for the queue
C10_Witness ==
    \E p \in Procs :
        /\ Done(p, "join") /\ proc[p].result = "ok"
        /\ Cardinality(ConnectionsOf(proc[p].queue_id)) = 2
        /\ Len(proc[p].sent) = 2
        /\ Len(proc[p].snapshot) = 2

\* handler p has sent `snapshot' to websocket c
Delivered(c, snapshot) ==
    \E i \in DOMAIN delivered : delivered[i] = Delivery(c, snapshot)

\* C11: a handler that has reached its broadcast ends without an error and
\* has delivered its snapshot to every registered websocket whose client is
\* there, also when the send on another registered websocket has failed
C11_BroadcastSkipsFailedConnection ==
    \A p \in Procs :
        (proc[p].pc = "done" /\ proc[p].idx >= 1) =>
            /\ proc[p].result = "ok"
            /\ \A c \in ConnectionsOf(proc[p].queue_id) \ dropped :
                   Delivered(c, proc[p].snapshot)

\* the rows a snapshot shows
RowsOf(snapshot) == {snapshot[i] : i \in DOMAIN snapshot}

\* handler o is a leave that has committed its delete and not yet its
\* renumbering, and there are members behind the row it removed
PartiallyApplied(o) ==
    /\ proc[o].kind = "leave"
    /\ proc[o].pc \in {"l_members", "l_renumber"}
    /\ Trailing(get_queue_members_by_queue_id(proc[o].queue_id),
                proc[o].queue_member) # {}

\* C12: a snapshot a broadcast has delivered shows the caller's own
\* mutation (it was read after the commit), and it never shows the table
\* of a leave whose delete is committed and whose renumbering is not
C12_SnapshotAfterCompleteOperations ==
    /\ \A p \in Procs :
          (proc[p].pc = "done" /\ proc[p].result = "ok") =>
              (RowOf(RowsOf(proc[p].snapshot),
                     proc[p].user_id, proc[p].queue_id) = NoRow)
                  <=> (proc[p].kind = "leave")
    /\ \A o \in Procs, i \in DOMAIN delivered :
          PartiallyApplied(o) =>
              RowsOf(delivered[i].text) #
                  get_queue_members_by_queue_id(proc[o].queue_id)

\* the text delivered last to websocket c
LastTo(c) ==
    delivered[MaxOf({i \in DOMAIN delivered :
                        delivered[i].connection = c})].text

\* C13: when the handlers that overlapped in time have all finished, the
\* text delivered last to every registered websocket is the queue as it is
\* committed now
C13_NoStaleView ==
    ( /\ since >= 2
      /\ \A p \in Procs : proc[p].pc = "done" /\ proc[p].result = "ok" )
    => \A c \in ConnectionsOf(ExistingQueue) :
           /\ \E i \in DOMAIN delivered : delivered[i].connection = c
           /\ LastTo(c) \in get_queue_for_ws_message(ExistingQueue)

\* C14: a websocket whose endpoint coroutine has ended, by the client's
\* disconnect or by another error of the receive loop, is not in the
\* registry; the registered websockets are those with a running loop
C14_EndedEndpointUnregistered ==
    \A c \in Conns :
        Registered(c) <=> endpoint[c].pc \in {"receive", "get_queue"}

\* an endpoint has ended by an unexpected error of its receive loop while
\* another websocket stays registered for the same queue id
C14_Witness ==
    \E c, d \in Conns :
        /\ endpoint[c].pc = "ended"
        /\ endpoint[c].result = "UnexpectedWebsocketException"
        /\ endpoint[d].pc = "receive"
        /\ endpoint[d].queue_id = endpoint[c].queue_id

\* C15: a websocket enters the registry only in a step in which its token
\* is valid, the queue exists and the user is a member of the workspace;
\* an attempt that ends in one of these checks leaves it unregistered
C15_RegisteredOnlyAfterChecks ==
    [][\A c \in Conns :
          /\ (~Registered(c) /\ Registered(c)') =>
                 /\ endpoint'[c].token # InvalidToken
                 /\ get_queue_by_id(endpoint'[c].queue_id) # NoQueue
                 /\ check_if_user_is_workspace_member(endpoint'[c].token)
          /\ (endpoint[c].pc \in {"closed", "ended"}
                 /\ endpoint'[c] # endpoint[c]
                 /\ endpoint'[c].pc = "ended") =>
                 /\ ~Registered(c)'
                 /\ active_connections' = active_connections]_vars

\* one websocket is registered for the queue, the attempt of a user outside
\* the workspace has been refused
C15_Witness ==
    \E c, d \in Conns :
        /\ Registered(c)
        /\ endpoint[d].pc = "ended"
        /\ endpoint[d].result = "UserIsNotWorkspaceAdminException"
        /\ endpoint[d].queue_id = endpoint[c].queue_id
        /\ ~Registered(d)

\* C16: a join, toggle or leave of an existing queue by a user who has no
\* row in the workspace's member table ends with Forbidden (403) and the
\* member rows are those the request found
C16_NonMemberForbidden ==
    \A p \in Procs :
        ( /\ proc[p].pc = "done"
          /\ proc[p].kind \in {"join", "toggle", "leave"}
          /\ get_queue_by_id(proc[p].queue_id) # NoQueue
          /\ \A w \in workspace_members : w.user_id # proc[p].user_id )
        => /\ StatusCode(proc[p].result) = 403
           /\ queue_members = quiescent.queue_members

\* a user outside the workspace has been refused a leave of a queue that
\* has a frozen member
C16_Witness ==
    \E p \in Procs :
        /\ Done(p, "leave")
        /\ \A w \in workspace_members : w.user_id # proc[p].user_id
        /\ proc[p].result = "UserIsNotWorkspaceAdminException"
        /\ \E m \in queue_members :
              m.queue_id = proc[p].queue_id /\ m.status = "frozen"

\* the caller of handler p has a row in the workspace's member table
CallerIsMember(p) ==
    \E w \in workspace_members : w.user_id = proc[p].user_id

\* the caller of handler p is an administrator of the workspace
CallerIsAdmin(p) ==
    \E w \in workspace_members : w.user_id = proc[p].user_id /\ w.is_admin

\* the subject of handler p had a queue when the request arrived
HadQueue(p) ==
    \E r \in quiescent.queues : r.subject_id = proc[p].subject_id

C18_FreezeOnlyIfAllowed ==
    [][\A m \in queue_members :
          ( /\ m.status = "active"
            /\ m \notin queue_members'
            /\ [m EXCEPT !.status = "frozen"] \in queue_members' )
          => /\ get_queue_by_id(m.queue_id) # NoQueue
             /\ get_queue_by_id(m.queue_id).members_can_freeze]_vars

\* C19: no two rows of queue_members share (user_id, queue_id), also when
\* two joins of the same user overlap
C19_OneSlotPerUser ==
    \A m, n \in queue_members :
        (m.user_id = n.user_id /\ m.queue_id = n.queue_id) => m = n

\* handler p ran a join that passed the uniqueness pre-check and read its
\* position, and the commit did not insert its row
LostJoin(p) ==
    /\ Done(p, "join")
    /\ proc[p].position >= 0
    /\ proc[p].queue_member = NoRow

\* two overlapping joins of the same user both passed the pre-check; one
\* inserted the user's row and the other was rejected at its commit
C19_Witness ==
    \E p, o \in Procs :
        /\ p # o
        /\ LostJoin(p)
        /\ proc[o].kind = "join"
        /\ proc[o].user_id = proc[p].user_id
        /\ proc[o].queue_member \in queue_members

\* C20: a join that passed the pre-check and whose insert the store
\* rejected is answered with Conflict (409)
C20_LosingJoinConflict ==
    \A p \in Procs : LostJoin(p) => StatusCode(proc[p].result) = 409

\* handler p has finished a join of a queue id that no queue had when the
\* request arrived
JoinedAbsentQueue(p) ==
    /\ Done(p, "join")
    /\ \A r \in quiescent.queues : r.id # proc[p].queue_id

\* C21 as stated: a join of a queue id that does not exist ends with
\* NotFound (404) and the member rows are those the request found
C21_JoinAbsentQueueNotFound ==
    \A p \in Procs :
        JoinedAbsentQueue(p) =>
            /\ StatusCode(proc[p].result) = 404
            /\ queue_members = quiescent.queue_members

\* C21 amended: a join of a queue id that does not exist ends with the
\* foreign-key violation, answered with Conflict (409), and the member rows
\* are those the request found
C21_JoinAbsentQueueConflict ==
    \A p \in Procs :
        JoinedAbsentQueue(p) =>
            /\ proc[p].result = "ForeignKeyViolationException"
            /\ StatusCode(proc[p].result) = 409
            /\ queue_members = quiescent.queue_members

\* a member of the workspace has been refused the join of an absent queue
\* while the existing queue has members
C21_Witness ==
    \E p \in Procs :
        /\ JoinedAbsentQueue(p)
        /\ \E w \in workspace_members : w.user_id = proc[p].user_id
        /\ proc[p].result = "ForeignKeyViolationException"
        /\ queue_members # {}

\* C22: a deletion by an administrator of a queue that has members ends
\* normally; afterwards the queue is gone and no row of queue_members refers
\* to it
C22_DeleteQueueCascades ==
    \A p \in Procs :
        \A r \in quiescent.queues :
            ( /\ Done(p, "delete_queue")
              /\ CallerIsAdmin(p)
              /\ r.subject_id = proc[p].subject_id
              /\ \E m \in quiescent.queue_members : m.queue_id = r.id )
            => /\ proc[p].result = "ok"
               /\ r \notin queues
               /\ \A m \in queue_members : m.queue_id # r.id

\* the other one of the two statuses
Flipped(status) == IF status = "active" THEN "frozen" ELSE "active"

\* C23: a toggle that ends normally leaves every row as the request found
\* it except the caller's own, whose status alone has changed, from active
\* to frozen or from frozen to active (so that a second toggle restores
\* what the first one changed)
C23_ToggleFlipsOwnStatus ==
    \A p \in Procs :
        (Done(p, "toggle") /\ proc[p].result = "ok") =>
            LET me == RowOf(quiescent.queue_members,
                            proc[p].user_id, proc[p].queue_id)
            IN  /\ me \in quiescent.queue_members
                /\ me.status \in {"active", "frozen"}
                /\ queue_members =
                       (quiescent.queue_members \ {me}) \cup
                           {[me EXCEPT !.status = Flipped(me.status)]}

\* the second toggle of a member has ended: the row is active again, as the
\* join made it, next to another member who is frozen
C23_Witness ==
    \E p \in Procs :
        /\ Done(p, "toggle") /\ proc[p].result = "ok"
        /\ RowOf(quiescent.queue_members,
                 proc[p].user_id, proc[p].queue_id).status = "frozen"
        /\ RowOf(queue_members,
                 proc[p].user_id, proc[p].queue_id).status = "active"
        /\ \E m \in queue_members :
              m.user_id # proc[p].user_id /\ m.status = "frozen"

\* C24: no queue id of the registry is mapped to an empty list, and every
\* websocket with a running receive loop is in the list of its queue id
C24_NoEmptyEntry ==
    /\ \A q \in DOMAIN active_connections : active_connections[q] # <<>>
    /\ \A c \in Conns :
          endpoint[c].pc \in {"receive", "get_queue"} =>
              /\ endpoint[c].queue_id \in DOMAIN active_connections
              /\ \E i \in DOMAIN active_connections[endpoint[c].queue_id] :
                    active_connections[endpoint[c].queue_id][i] = c

\* the only websocket of a queue has been unregistered after its client
\* left, and another websocket holds the entry of another queue
C24_Witness ==
    \E c, d \in Conns :
        /\ endpoint[c].pc = "ended" /\ endpoint[c].result = "ok"
        /\ endpoint[c].queue_id \notin DOMAIN active_connections
        /\ endpoint[d].pc = "receive"
        /\ DOMAIN active_connections = {endpoint[d].queue_id}

\* C25: when the broadcast of a handler has ended normally, every websocket
\* that was registered for the queue from the start of the loop to its end
\* has been sent the snapshot exactly once
C25_BroadcastUnderRegistryChanges ==
    \A p \in Procs :
        ( /\ proc[p].pc = "done"
          /\ proc[p].kind \in {"join", "toggle", "leave"}
          /\ proc[p].result = "ok" )
        => \A c \in proc[p].audience :
               Cardinality({i \in DOMAIN proc[p].sent :
                               proc[p].sent[i] = c}) = 1

\* C26: when a removal from the workspace that found the queue with
\* positions 0 .. n-1 has deleted the removed user's slot, the remaining
\* members have positions 0 .. n-2, and so has every snapshot the removal
\* broadcast
C26_RemovalKeepsContiguity ==
    \A p \in Procs :
        ( /\ Done(p, "delete_workspace_member")
          /\ proc[p].result = "ok"
          /\ proc[p].queue_member # NoRow
          /\ Contiguous({m \in quiescent.queue_members :
                            m.queue_id = proc[p].queue_id}) )
        => /\ Contiguous(get_queue_members_by_queue_id(proc[p].queue_id))
           /\ \A i \in DOMAIN delivered :
                 {delivered[i].text[k].position :
                      k \in DOMAIN delivered[i].text}
                     = 0 .. (Len(delivered[i].text) - 1)

\* C27: when a join, toggle or leave has ended with an error, the rows of
\* queue_members and of submissions are those the request found
C27_ErrorLeavesNoChange ==
    \A p \in Procs :
        ( /\ proc[p].pc = "done"
          /\ proc[p].kind \in {"join", "toggle", "leave"}
          /\ proc[p].result # "ok" )
        => /\ queue_members = quiescent.queue_members
           /\ submissions = quiescent.submissions

\* the user has a row in workspace_members whose status is not approved
NotApproved(u) ==
    \E w \in workspace_members : w.user_id = u /\ w.status # "approved"

\* C28: a join, toggle or leave of a user whose membership is pending or
\* rejected ends with Forbidden (403) and changes no row, and no websocket
\* of such a user enters the registry
C28_NotApprovedRefused ==
    [][ /\ \A p \in Procs :
              ( /\ proc[p].pc # "done" /\ proc'[p].pc = "done"
                /\ proc[p].kind \in {"join", "toggle", "leave"}
                /\ get_queue_by_id(proc[p].queue_id) # NoQueue
                /\ NotApproved(proc[p].user_id) )
              => /\ StatusCode(proc'[p].result) = 403
                 /\ queue_members' = quiescent.queue_members
        /\ \A c \in Conns :
              ( /\ ~Registered(c) /\ Registered(c)' )
              => ~NotApproved(endpoint'[c].token) ]_vars

\* rows m and n are the slot of one user in one queue
SameSlot(m, n) == m.user_id = n.user_id /\ m.queue_id = n.queue_id

\* C29: the queue is first-in-first-out.  Every step that inserts a slot
\* gives it a position above those of all slots of its queue (the member
\* who joined earlier is in front), and no step changes the order of the
\* positions of two slots that both remain
C29_FirstInFirstOut ==
    [][ /\ \A n \in queue_members' :
              (\A m \in queue_members : ~SameSlot(m, n)) =>
                  \A m \in queue_members :
                      m.queue_id = n.queue_id => m.position < n.position
        /\ \A m1, m2 \in queue_members :
              \A n1, n2 \in queue_members' :
                  ( /\ SameSlot(m1, n1) /\ SameSlot(m2, n2)
                    /\ m1.queue_id = m2.queue_id
                    /\ m1.position < m2.position )
                  => n1.position < n2.position ]_vars

\* C30: whenever no handler is running, the user of every row of
\* queue_members has a row in workspace_members
C30_SlotsBelongToMembers ==
    Quiescent =>
        \A m \in queue_members :
            \E w \in workspace_members : w.user_id = m.user_id

====
